---- MODULE Spec2Model ----
(***************************************************************************)
(* Non-relativistic Hartree-Fock SCF driver of scf/hf.py: the solver       *)
(* objects (SCF/RHF/UHF), the iteration driver scf_cycle, the initial      *)
(* guess selector and the run-scoped resources (direct-SCF screening       *)
(* state, in-memory integral tensor, checkpoint file).                     *)
(*                                                                         *)
(* Numerics.  The atomic-orbital basis has NBasis functions and is taken   *)
(* orthonormal (overlap = identity); every matrix the driver handles is    *)
(* diagonal in it and is kept as the tuple of its diagonal.  An orbital    *)
(* coefficient matrix is kept as the tuple of the basis function each      *)
(* column sits on (0: a zero column).  Potentials, Fock matrices and       *)
(* orbital energies are kept in half units (the code's vj - vk*.5) and     *)
(* total energies in quarter units (the code's coul_dup*.5), each counted  *)
(* in thousandths (PerUnit), and the damping and level-shift factors in    *)
(* thousandths as well, so all arithmetic stays in the integers and the    *)
(* test factor < 1e-3 is the test factor < 1; the convergence tests are    *)
(* ratios and do not see the unit.                                         *)
(*                                                                         *)
(* The integral library, LAPACK and the file system are outside hf.py:     *)
(* the integrals are those of a small model molecule, the eigensolver      *)
(* returns the eigen-decomposition of the matrix it is given (any order    *)
(* of degenerate columns) with any status, and files may fail.             *)
(***************************************************************************)
EXTENDS Integers, Sequences, FiniteSets, TLC

\* ---------------------------------------------------------------- bounds
\* basis functions of the molecules explored: the small basis of the
\* general runs, the wide basis of the runs that look at the spin channels
SmallBasis == 2
WideBasis == 3
MaxCycle == 3
MaxRuns == 1

\* ------------------------------------------------------------------ state
VARIABLES
    mol,    \* the molecule descriptor: [nbf, nelectron, spacing]
    kind,   \* the solver class asked for: "RHF" or "UHF"
    self,   \* the solver object's attributes
    pc,     \* where the program is: "new", "dead", "idle", or a place in scf()/scf_cycle
    loc,    \* the locals of the running scf_cycle
    env,    \* what lives outside the object: the checkpoint file, the C library's screening state
    obs     \* what the caller has observed: the last call, its outcome, counters of the run

vars == <<mol, kind, self, pc, loc, env, obs>>

\* nbf = mol.num_NR_function(): the basis functions of the molecule
NBasis == mol.nbf

Basis == 1..NBasis
\* budgets a caller may configure (max_scf_cycle), 0 and negative included
Budgets == -1..MaxCycle
\* scf_threshold as a ratio <<numerator, denominator>>
Thresholds == {<<1, 1000>>, <<1, 2>>}
\* param.MEMORY_MAX as configured at import time
MemoryCeilings == {0, 4000}
\* level spacings of the core Hamiltonian of the molecules explored
Spacings == {1, 2, 3}
\* diis_space, diis_start_cycle, damp_factor and level_shift_factor (in
\* thousandths) as a caller may configure them; fix_nelectron_alpha
DiisSpaces == {1, 2}
StartCycles == {0, 2}
DampFactors == {0, 1000}
ShiftFactors == {-1000, 0, 2, 1000}
FixedAlphas == 0..NBasis
\* thousandths in a unit: factors and energies are counted in thousandths,
\* the resolution of the tests factor < 1e-3
PerUnit == 1000

\* ------------------------------------------------------------ arithmetic
Abs(x) == IF x < 0 THEN -x ELSE x

Max(a, b) == IF a >= b THEN a ELSE b

RECURSIVE SumTo(_, _)
SumTo(v, n) == IF n = 0 THEN 0 ELSE v[n] + SumTo(v, n - 1)

\* sum of the entries of a tuple
Sum(v) == SumTo(v, Len(v))

Zero == [p \in Basis |-> 0]

VAdd(a, b) == [p \in Basis |-> a[p] + b[p]]

VSub(a, b) == [p \in Basis |-> a[p] - b[p]]

VScale(k, a) == [p \in Basis |-> k * a[p]]

VAbs(a) == [p \in Basis |-> Abs(a[p])]

\* numpy.dot of two vectors / trace of the product of two diagonal matrices
Dot(a, b) == Sum([p \in Basis |-> a[p] * b[p]])

\* the same operations on a tuple of spin blocks (one block: restricted)
BAdd(a, b) == [s \in DOMAIN a |-> VAdd(a[s], b[s])]

BSub(a, b) == [s \in DOMAIN a |-> VSub(a[s], b[s])]

BZero(n) == [s \in 1..n |-> Zero]

BAbsSum(a) == Sum([s \in DOMAIN a |-> Sum(VAbs(a[s]))])

\* coefficient matrices with orthonormal columns: permutations of the basis
Perms == {c \in [Basis -> Basis] : \A i, j \in Basis : i # j => c[i] # c[j]}

\* ------------------------------------------------- external collaborators
\* mol.intor_symmetric kinetic + nuclear attraction: the core Hamiltonian of
\* a molecule with the given level spacing, half units, highest level at 0
Hcore(spacing) == [p \in Basis |-> PerUnit * spacing * (p - NBasis)]

\* Coulomb and exchange contractions of the integral library: linear in the
\* density; the two-electron integrals (pq|rs) are 1 for p = q = r = s and 0
\* otherwise
Vj(d) == [p \in Basis |-> PerUnit * d[p]]

Vk(d) == [p \in Basis |-> PerUnit * d[p]]

\* lapack.dsygv on a diagonal matrix f with unit overlap: eigenvalues in
\* ascending order, column i of c on the basis function that carries
\* eigenvalue i (degenerate columns in any order), and the status info
dsygv(f) ==
    {[e |-> [i \in Basis |-> f[c[i]]], c |-> c, info |-> info] :
        c \in {q \in Perms : \A i \in Basis : i < NBasis => f[q[i]] <= f[q[i + 1]]},
        info \in {0, 1}}

\* densities an external guess (MINAO, atomic superposition, a custom f_init)
\* may deliver, per spin block
GuessBlocks == {[p \in Basis |-> IF p = 1 THEN 2 ELSE 0], [p \in Basis |-> 0]}

\* ------------------------------------------------------------ hf.py, pure
\* hf.py:1130 _is_mem_enough
is_mem_enough(nbf, memory_max) == (nbf * nbf * nbf * nbf) \div (1024 * 1024) < memory_max

NBlocks(k) == IF k = "UHF" THEN 2 ELSE 1

\* Python's a[:n] on a vector of NBasis entries: how many leading entries
SliceLen(n) == IF n >= 0 THEN (IF n < NBasis THEN n ELSE NBasis)
               ELSE Max(NBasis + n, 0)

\* numpy accepts the index i on a vector of NBasis entries
IndexOk(i) == -NBasis <= i /\ i < NBasis

\* occupations that fill nelectron orbitals instead of nelectron/2
SCF_set_mo_occ_per_electron(nelectron) ==
    <<[i \in Basis |-> IF i <= SliceLen(nelectron) THEN 2 ELSE 0]>>

\* SCF.set_mo_occ: the lowest nelectron/2 orbitals doubly occupied
SCF_set_mo_occ(nelectron) ==
    LET nocc == nelectron \div 2
    IN  <<[i \in Basis |-> IF i <= SliceLen(nocc) THEN 2 ELSE 0]>>

\* a merge that puts beta first where an alpha and a beta energy are equal
RECURSIVE MergedLabelsBetaFirst(_, _, _, _)
MergedLabelsBetaFirst(a, b, i, j) ==
    IF i > NBasis /\ j > NBasis THEN <<>>
    ELSE IF j > NBasis \/ (i <= NBasis /\ a[i] < b[j])
         THEN <<0>> \o MergedLabelsBetaFirst(a, b, i + 1, j)
         ELSE <<1>> \o MergedLabelsBetaFirst(a, b, i, j + 1)

\* sorted([(e,0) for e in a] + [(e,1) for e in b]): the spin labels in sorted
\* order; i, j: the next unmerged entry of a and of b
RECURSIVE MergedLabels(_, _, _, _)
MergedLabels(a, b, i, j) ==
    IF i > NBasis /\ j > NBasis THEN <<>>
    ELSE IF j > NBasis \/ (i <= NBasis /\ a[i] <= b[j])
         THEN <<0>> \o MergedLabels(a, b, i + 1, j)
         ELSE <<1>> \o MergedLabels(a, b, i, j + 1)

\* filter(lambda x: x[1]==0, ee[:nelectron]).__len__()
CountAlpha(mo_energy, nelectron) ==
    LET ee == MergedLabels(mo_energy[1], mo_energy[2], 1, 1)
        n  == IF nelectron >= 0 THEN (IF nelectron < Len(ee) THEN nelectron ELSE Len(ee))
              ELSE Max(Len(ee) + nelectron, 0)
    IN  Cardinality({k \in 1..n : ee[k] = 0})

\* UHF.set_mo_occ: the alpha count it settles on
UHF_n_a(fix_nelectron_alpha, nelectron, mo_energy) ==
    IF fix_nelectron_alpha > 0 THEN fix_nelectron_alpha
    ELSE CountAlpha(mo_energy, nelectron)

\* UHF.set_mo_occ: the occupations for n_a alpha and n_b beta electrons
UHF_mo_occ(n_a, n_b) ==
    <<[i \in Basis |-> IF i <= SliceLen(n_a) THEN 1 ELSE 0],
      [i \in Basis |-> IF i <= SliceLen(n_b) THEN 1 ELSE 0]>>

\* UHF.set_mo_occ: the orbital energies it reads for its log lines exist
UHF_log_ok(n_a, n_b) ==
    /\ IF n_a < NBasis THEN IndexOk(n_a - 1) /\ IndexOk(n_a) ELSE IndexOk(n_a - 1)
    /\ IndexOk(n_b - 1) /\ IndexOk(n_b)

\* calc_den_mat, one spin block: numpy.dot(mo*occ, mo.T) over the occupied
\* columns; column i sits on basis function c[i]
DenBlock(c, occ) ==
    [p \in Basis |-> Sum([i \in Basis |-> IF occ[i] > 0 /\ c[i] = p THEN occ[i] ELSE 0])]

calc_den_mat(mo_coeff, mo_occ) ==
    [s \in DOMAIN mo_coeff |-> DenBlock(mo_coeff[s], mo_occ[s])]

\* calc_tot_elec_energy, in quarter units: sum_mo_energy - coul_dup*.5
calc_tot_elec_energy(vhf, dm, mo_energy, mo_occ) ==
    2 * Sum([s \in DOMAIN dm |-> Dot(mo_energy[s], mo_occ[s])])
      - Sum([s \in DOMAIN dm |-> Dot(dm[s], vhf[s])])

\* the effective potential of a density in half units: vj - vk*.5 (RHF),
\* vj[0] + vj[1] - vk[s] (UHF)
Veff(k, d) ==
    IF k = "UHF"
    THEN [s \in 1..2 |-> VScale(2, VSub(VAdd(Vj(d[1]), Vj(d[2])), Vk(d[s])))]
    ELSE <<VSub(VScale(2, Vj(d[1])), Vk(d[1]))>>

\* a direct strategy that adds the potential of the whole density to the
\* previous potential
get_eff_potential_no_difference(k, eri_in_memory, direct_scf, dm, dm_last, vhf_last) ==
    IF eri_in_memory THEN Veff(k, dm)
    ELSE IF direct_scf THEN BAdd(vhf_last, Veff(k, dm))
    ELSE Veff(k, dm)

\* get_eff_potential: the three strategies
get_eff_potential(k, eri_in_memory, direct_scf, dm, dm_last, vhf_last) ==
    IF eri_in_memory THEN Veff(k, dm)
    ELSE IF direct_scf THEN BAdd(vhf_last, Veff(k, BSub(dm, dm_last)))
    ELSE Veff(k, dm)

\* abs((hf_energy-last_hf_e)/hf_energy) < scf_threshold; a zero hf_energy
\* makes the quotient inf or nan, which compares False
energy_converged(hf_energy, last_hf_e, thr) ==
    /\ hf_energy # 0
    /\ Abs(hf_energy - last_hf_e) * thr[2] < thr[1] * Abs(hf_energy)

\* SCF.check_dm_converge: delta_dm/abs(dm_last).sum() < scf_threshold*1e2
check_dm_converge(dm, dm_last, thr) ==
    /\ BAbsSum(dm_last) # 0
    /\ BAbsSum(BSub(dm, dm_last)) * thr[2] < thr[1] * 100 * BAbsSum(dm_last)

\* a loop test that lets one cycle too many through
LoopCondLate(scf_conv, cycle, max_scf_cycle) ==
    ~scf_conv /\ cycle <= Max(1, max_scf_cycle)

\* the loop test of scf_cycle
LoopCond(scf_conv, cycle, max_scf_cycle) ==
    ~scf_conv /\ cycle < Max(1, max_scf_cycle)

\* nuclear repulsion of the molecule (mol.nuclear_repulsion()), whole units
nuclear_repulsion == 1

\* sum of the atomic energies the atomic-superposition guess starts from
atomic_energy == -2

\* ------------------------------------------------------- objects, files
None == <<>>

\* a selector that also takes a name it has no strategy for
GuessMethodsWide == {"1e", "chkfile", "minao", "atom", "huckel"}

\* the names set_init_guess accepts
GuessMethods == {"1e", "chkfile", "minao", "atom"}

\* the attributes before __init__ has run
NoObject ==
    [mo_energy |-> None, mo_coeff |-> None, mo_occ |-> None, hf_energy |-> 0,
     scf_conv |-> FALSE, direct_scf |-> TRUE, eri_in_memory |-> FALSE, eri |-> FALSE,
     opt |-> FALSE, max_scf_cycle |-> 0, scf_threshold |-> <<0, 1>>,
     diis_space |-> 0, diis_start_cycle |-> 0, damp_factor |-> 0, level_shift_factor |-> 0,
     init_guess |-> "minao", f_init |-> FALSE,
     nelectron_alpha |-> 0, fix_nelectron_alpha |-> 0]

\* no scf_cycle is running
NoLocals ==
    [via |-> "none", dump_chk |-> FALSE, init_dm |-> None, scf_conv |-> FALSE, cycle |-> 0,
     hf_energy |-> 0, dm |-> None, dm_last |-> None, vhf |-> None, fock |-> None,
     mo_energy |-> None, mo_coeff |-> None, mo_occ |-> None, err_vec_stack |-> <<>>]

NoRecord ==
    [state |-> "missing", same_mol |-> TRUE, uhf |-> FALSE, hf_energy |-> 0,
     mo_energy |-> None, mo_occ |-> None, mo_coeff |-> None]

\* a record an earlier restricted run on two electrons left behind
OldRecord(same) ==
    [state |-> "ok", same_mol |-> same, uhf |-> FALSE, hf_energy |-> -8 * PerUnit,
     mo_energy |-> <<[p \in Basis |-> PerUnit * (p - NBasis)]>>,
     mo_occ |-> <<[p \in Basis |-> IF p = 1 THEN 2 ELSE 0]>>,
     mo_coeff |-> <<[p \in Basis |-> p]>>]

\* the checkpoint file as the first read may find it: absent or unreadable,
\* or a full record of this or of another molecule
InitialFiles == {NoRecord, OldRecord(TRUE), OldRecord(FALSE)}

\* the checkpoint file nobody has looked at or written yet
AsFound == [NoRecord EXCEPT !.state = "as found"]

\* what a read of the file may see
FileContents(file) == IF file.state = "as found" THEN InitialFiles ELSE {file}

NoObs ==
    [call |-> "none", outcome |-> "none", exc |-> "none", runs |-> 0, ret |-> 0,
     nBody |-> 0, nDiis |-> 0, nRefine |-> 0, eigFailed |-> FALSE, integrals |-> FALSE,
     trail |-> <<>>, eOK |-> FALSE, dOK |-> FALSE, eriBuilds |-> 0,
     screenAtBuild |-> TRUE, cycRet |-> None, method |-> "none", custom |-> FALSE,
     pushes |-> <<>>, acc |-> None, regimes |-> <<>>, warned |-> FALSE,
     nDump |-> 0, selected |-> "minao"]

\* the scripts that run the driver themselves, scf.scf_cycle(mol,
\* scf.scf_threshold, dump_chk), with the checkpoint on or off
DirectScripts ==
    [max_scf_cycle : {2}, scf_threshold : {<<1, 1000>>}, direct_scf : {TRUE},
     memory_max : {4000}, diis_space : {8}, diis_start_cycle : {3},
     damp_factor : {0}, level_shift_factor : {0}, fix_nelectron_alpha : {0},
     call : {"scf_cycle"}, dump_chk : BOOLEAN]

\* the values a caller's script assigns to the option attributes right after
\* construction (memory_max: param.MEMORY_MAX as the script finds it) and
\* the entry point it calls then (scf() has scf_cycle's default dump_chk):
\* the scripts that leave the accelerator and the spin options at their
\* defaults
Scripts ==
    [max_scf_cycle : Budgets, scf_threshold : Thresholds, direct_scf : BOOLEAN,
     memory_max : MemoryCeilings, diis_space : {8}, diis_start_cycle : {3},
     damp_factor : {0}, level_shift_factor : {0}, fix_nelectron_alpha : {0},
     call : {"scf"}, dump_chk : {TRUE}]
      \cup DirectScripts

\* the scripts that configure the accelerator
DiisScripts ==
    [max_scf_cycle : {MaxCycle}, scf_threshold : {<<1, 1000>>}, direct_scf : {TRUE},
     memory_max : MemoryCeilings, diis_space : DiisSpaces, diis_start_cycle : StartCycles,
     damp_factor : DampFactors, level_shift_factor : ShiftFactors,
     fix_nelectron_alpha : {0}, call : {"scf"}, dump_chk : {TRUE}]
      \cup DirectScripts

\* the scripts that fix the number of alpha electrons
SpinScripts ==
    [max_scf_cycle : {1, MaxCycle}, scf_threshold : Thresholds, direct_scf : {TRUE},
     memory_max : MemoryCeilings, diis_space : {8}, diis_start_cycle : {3},
     damp_factor : {0}, level_shift_factor : {0}, fix_nelectron_alpha : FixedAlphas,
     call : {"scf"}, dump_chk : {TRUE}]
      \cup DirectScripts

\* the scripts run on the molecules of the wide basis
WideScripts ==
    [max_scf_cycle : {1, 2}, scf_threshold : {<<1, 1000>>}, direct_scf : {TRUE},
     memory_max : MemoryCeilings, diis_space : {8}, diis_start_cycle : {3},
     damp_factor : {0}, level_shift_factor : {0}, fix_nelectron_alpha : {0, 1},
     call : {"scf"}, dump_chk : {TRUE}]
      \cup DirectScripts

\* before construction: a molecule of nbf basis functions, a solver class,
\* a script
InitOn(nbf, scripts) ==
    /\ mol \in [nbf : {nbf}, nelectron : 1..(2 * nbf), spacing : Spacings]
    /\ kind \in {"RHF", "UHF"}
    /\ self = NoObject
    /\ pc = "new"
    /\ loc = NoLocals
    /\ \E script \in scripts : env = [chkfile |-> AsFound, screen |-> FALSE, script |-> script]
    /\ obs = NoObs

InitWith(scripts) == InitOn(SmallBasis, scripts)

Init == InitWith(Scripts)

InitDiis == InitWith(DiisScripts)

InitSpin == InitWith(SpinScripts)

InitWide == InitOn(WideBasis, WideScripts)

\* ----------------------------------------------------------- construction
\* SCF.__init__ followed by the script's assignments to the option
\* attributes (the defaults: diis_space 8, diis_start_cycle 3, damp_factor 0,
\* level_shift_factor 0)
SCF_init(script) ==
    [NoObject EXCEPT !.max_scf_cycle = script.max_scf_cycle,
                     !.scf_threshold = script.scf_threshold,
                     !.direct_scf = script.direct_scf,
                     !.diis_space = script.diis_space,
                     !.diis_start_cycle = script.diis_start_cycle,
                     !.damp_factor = script.damp_factor,
                     !.level_shift_factor = script.level_shift_factor,
                     !.init_guess = "minao"]

\* a constructor that accepts every electron count
any_nelectron(nelectron) == TRUE

\* RHF.__init__ line 546: the electron counts it accepts
valid_nelectron(nelectron) == ~(nelectron # 1 /\ nelectron % 2 # 0)

\* RHF.__init__: an odd electron count other than 1 is refused
RHF_init ==
    /\ pc = "new" /\ kind = "RHF"
    /\ IF ~valid_nelectron(mol.nelectron)
       THEN /\ pc' = "dead"
            /\ obs' = [obs EXCEPT !.call = "__init__", !.outcome = "raised",
                                  !.exc = "ValueError"]
            /\ UNCHANGED self
       ELSE /\ self' = [SCF_init(env.script) EXCEPT
                              !.eri_in_memory = is_mem_enough(NBasis, env.script.memory_max),
                              !.eri = FALSE]
            /\ pc' = "idle"
            /\ obs' = [obs EXCEPT !.call = "__init__", !.outcome = "returned"]
    /\ UNCHANGED <<mol, kind, loc, env>>

\* UHF.__init__
UHF_init ==
    /\ pc = "new" /\ kind = "UHF"
    /\ self' = [SCF_init(env.script) EXCEPT
                    !.nelectron_alpha = (mol.nelectron + 1) \div 2,
                    !.fix_nelectron_alpha = env.script.fix_nelectron_alpha,
                    !.eri_in_memory = is_mem_enough(NBasis, env.script.memory_max),
                    !.eri = FALSE]
    /\ pc' = "idle"
    /\ obs' = [obs EXCEPT !.call = "__init__", !.outcome = "returned"]
    /\ UNCHANGED <<mol, kind, loc, env>>

\* ---------------------------------------------- calls between the runs
\* SCF.set_init_guess(method, f_init); init_guess(method) is the same call
\* with f_init=None
set_init_guess(method, f_init) ==
    /\ pc = "idle" /\ obs.runs < MaxRuns
    /\ IF method \in GuessMethods
       THEN /\ self' = [self EXCEPT !.init_guess = method]
            /\ obs' = [NoObs EXCEPT !.call = "set_init_guess", !.outcome = "returned",
                                    !.runs = obs.runs, !.method = method, !.custom = f_init,
                                    !.selected = method]
       ELSE IF f_init
       THEN /\ self' = [self EXCEPT !.f_init = TRUE]
            /\ obs' = [NoObs EXCEPT !.call = "set_init_guess", !.outcome = "returned",
                                    !.runs = obs.runs, !.method = method, !.custom = f_init,
                                    !.selected = "f_init"]
       ELSE /\ self' = self
            /\ obs' = [NoObs EXCEPT !.call = "set_init_guess", !.outcome = "raised",
                                    !.exc = "KeyError", !.runs = obs.runs,
                                    !.method = method, !.custom = f_init,
                                    !.selected = obs.selected]
    /\ UNCHANGED <<mol, kind, pc, loc, env>>

\* RHF.release_eri / UHF.release_eri, called while a tensor is held
release_eri ==
    /\ pc = "idle" /\ self.eri
    /\ self' = [self EXCEPT !.eri = FALSE]
    /\ obs' = [NoObs EXCEPT !.call = "release_eri", !.outcome = "returned",
                            !.runs = obs.runs, !.selected = obs.selected]
    /\ UNCHANGED <<mol, kind, pc, loc, env>>

\* ------------------------------------------------------------ eigensolver
\* SCF.eig: one dsygv call, returned as (e, c, info); failed: the call
\* reported a failure
SCF_eig(f) ==
    {[e |-> <<l.e>>, c |-> <<l.c>>, err |-> l.info, failed |-> (l.info # 0)] :
        l \in dsygv(f)}

\* UHF.eig: a call per spin channel, the second call's info overwriting the
\* first's
UHF_eig(fock) ==
    {[e |-> <<a.e, b.e>>, c |-> <<a.c, b.c>>, err |-> b.info,
      failed |-> (a.info # 0 \/ b.info # 0)] :
        a \in dsygv(fock[1]), b \in dsygv(fock[2])}

eig(k, fock) == IF k = "UHF" THEN UHF_eig(fock) ELSE SCF_eig(fock[1])

\* get_hcore: one block (SCF), the same block for both spins (UHF)
get_hcore(k, m) == [s \in 1..NBlocks(k) |-> Hcore(m.spacing)]

\* make_fock: h1e + vhf
make_fock(h1e, vhf) == BAdd(h1e, vhf)

\* a level shift without the test of the factor
level_shift_unguarded(k, d, f, factor) ==
    [s \in DOMAIN f |->
        [p \in Basis |-> f[s][p] + (2 - NBlocks(k) * d[s][p]) * factor]]

\* SCF.level_shift (dm_vir = s - s*d/2*s) and UHF.level_shift
\* (dm_vir = s - s*d*s): f + dm_vir*factor once the factor reaches 1e-3
level_shift(k, d, f, factor) ==
    IF factor < 1 THEN f
    ELSE [s \in DOMAIN f |->
            [p \in Basis |-> f[s][p] + (2 - NBlocks(k) * d[s][p]) * factor]]

\* SCF.damping / UHF.damping: f - (f0 + f0.T)*factor/(factor+1) with
\* f0 = dm_vir*f*d*s, once the factor reaches 1e-3
damping(k, d, f, factor) ==
    IF factor < 1 THEN f
    ELSE [s \in DOMAIN f |->
            [p \in Basis |-> f[s][p] - ((2 - NBlocks(k) * d[s][p]) * f[s][p] * d[s][p] * factor)
                                          \div (factor + PerUnit)]]

\* numpy.exp(-n) in thousandths, rounded down
exp_neg(n) ==
    CASE n = 0 -> 1000 [] n = 1 -> 367 [] n = 2 -> 135 [] n = 3 -> 49
      [] n = 4 -> 18 [] n = 5 -> 6 [] n = 6 -> 2 [] OTHER -> 0

\* a level-shift factor that never decays
undecayed_factor(level_shift_factor, diis_start_cycle, cycle) == level_shift_factor

\* fac = level_shift_factor * numpy.exp(diis_start_cycle-cycle-1), for the
\* cycles that reach this line (cycle >= diis_start_cycle - 1)
decayed_factor(level_shift_factor, diis_start_cycle, cycle) ==
    (level_shift_factor * exp_neg(cycle + 1 - diis_start_cycle)) \div PerUnit

\* the error vector sdf.T - sdf per spin channel (UHF: the two side by side)
err_vec(d, f) ==
    [s \in DOMAIN f |-> [p \in Basis |-> d[s][p] * f[s][p] - f[s][p] * d[s][p]]]

\* a history that evicts its newest entry when it is full
push_drop_newest(stack, errvec, diis_space) ==
    IF Len(stack) >= diis_space THEN stack ELSE Append(stack, errvec)

\* err_vec_stack.append(errvec), then pop(0) when the stack holds more than
\* diis_space entries
push_err_vec(stack, errvec, diis_space) ==
    LET pushed == Append(stack, errvec)
    IN  IF Len(pushed) > diis_space THEN Tail(pushed) ELSE pushed

\* diis.DIIS.update: the extrapolated Fock matrix; with error vectors that
\* all vanish the newest matrix is the extrapolation
diis_update(f) == f

\* diis.SCF_DIIS.update of the restricted accelerator: the error vector
\* joins the bounded history, then the extrapolation
SCF_DIIS_update(stack, errvec, diis_space, f) ==
    [stack |-> push_err_vec(stack, errvec, diis_space), fock |-> diis_update(f)]

\* what one call of the accelerator did: the calls made in order, each with
\* its factor, the matrix it was given and the matrix it returned
Call(name, factor, fin, fout) == [name |-> name, factor |-> factor, fin |-> fin, fout |-> fout]

\* an accelerator that still damps in the boundary cycle
scf_diis_damp_late(k, slf, stack, cycle, d, f) ==
    LET extrap == cycle >= slf.diis_start_cycle
        ev  == <<cycle, err_vec(d, f)>>
        upd == IF k = "UHF"
               THEN [stack |-> push_err_vec(stack, ev, slf.diis_space), fock |-> diis_update(f)]
               ELSE SCF_DIIS_update(stack, ev, slf.diis_space, f)
        f1  == IF extrap THEN upd.fock ELSE f
        u   == IF extrap THEN <<Call("update", 0, f, f1)>> ELSE <<>>
    IN  IF cycle < slf.diis_start_cycle
        THEN LET f2 == damping(k, d, f1, slf.damp_factor)
                 f3 == level_shift(k, d, f2, slf.level_shift_factor)
             IN  [fock |-> f3, stack |-> IF extrap THEN upd.stack ELSE stack,
                  pushed |-> IF extrap THEN <<ev>> ELSE <<>>,
                  calls |-> u \o <<Call("damping", slf.damp_factor, f1, f2),
                                   Call("level_shift", slf.level_shift_factor, f2, f3)>>]
        ELSE LET fac == decayed_factor(slf.level_shift_factor, slf.diis_start_cycle, cycle)
                 f3  == level_shift(k, d, f1, fac)
             IN  [fock |-> f3, stack |-> IF extrap THEN upd.stack ELSE stack,
                  pushed |-> IF extrap THEN <<ev>> ELSE <<>>,
                  calls |-> u \o <<Call("level_shift", fac, f1, f3)>>]

\* the closure init_diis returns, called with the history of its accelerator
\* object: at cycle >= diis_start_cycle the error vector is pushed and the
\* Fock matrix extrapolated; below diis_start_cycle - 1 damping, then level
\* shift, at the configured factors; otherwise (the boundary cycle and every
\* later one) level shift at the decayed factor
scf_diis(k, slf, stack, cycle, d, f) ==
    LET extrap == cycle >= slf.diis_start_cycle
        ev  == <<cycle, err_vec(d, f)>>
        upd == IF k = "UHF"
               THEN [stack |-> push_err_vec(stack, ev, slf.diis_space), fock |-> diis_update(f)]
               ELSE SCF_DIIS_update(stack, ev, slf.diis_space, f)
        f1  == IF extrap THEN upd.fock ELSE f
        u   == IF extrap THEN <<Call("update", 0, f, f1)>> ELSE <<>>
    IN  IF cycle < slf.diis_start_cycle - 1
        THEN LET f2 == damping(k, d, f1, slf.damp_factor)
                 f3 == level_shift(k, d, f2, slf.level_shift_factor)
             IN  [fock |-> f3, stack |-> IF extrap THEN upd.stack ELSE stack,
                  pushed |-> IF extrap THEN <<ev>> ELSE <<>>,
                  calls |-> u \o <<Call("damping", slf.damp_factor, f1, f2),
                                   Call("level_shift", slf.level_shift_factor, f2, f3)>>]
        ELSE LET fac == decayed_factor(slf.level_shift_factor, slf.diis_start_cycle, cycle)
                 f3  == level_shift(k, d, f1, fac)
             IN  [fock |-> f3, stack |-> IF extrap THEN upd.stack ELSE stack,
                  pushed |-> IF extrap THEN <<ev>> ELSE <<>>,
                  calls |-> u \o <<Call("level_shift", fac, f1, f3)>>]

\* the regime a call of the accelerator was in, by the calls it made: 3 the
\* history was updated, 1 damping was called, 2 neither
regime(calls) ==
    IF \E i \in DOMAIN calls : calls[i].name = "update" THEN 3
    ELSE IF \E i \in DOMAIN calls : calls[i].name = "damping" THEN 1
    ELSE 2

\* SCF.set_mo_occ reads mo_energy[nocc-1] (and mo_energy[nocc]) for its log
SCF_log_ok(nocc) ==
    IF nocc < NBasis THEN IndexOk(nocc - 1) /\ IndexOk(nocc) ELSE IndexOk(nocc - 1)

\* set_mo_occ of the solver class: the occupations, the value it leaves in
\* nelectron_alpha, and whether it returns (ok) or dies on an IndexError
set_mo_occ(k, slf, nelectron, mo_energy) ==
    IF k = "UHF"
    THEN LET n_a == UHF_n_a(slf.fix_nelectron_alpha, nelectron, mo_energy)
             n_b == nelectron - n_a
         IN  [occ |-> UHF_mo_occ(n_a, n_b), n_alpha |-> n_a, ok |-> UHF_log_ok(n_a, n_b)]
    ELSE [occ |-> SCF_set_mo_occ(nelectron), n_alpha |-> slf.nelectron_alpha,
          ok |-> SCF_log_ok(nelectron \div 2)]

\* UHF.break_spin_sym with break_symmetry = False: one beta column zeroed
break_spin_sym(nelectron, mo_coeff) ==
    LET nocc == nelectron \div 2
        z    == IF nocc = 0 THEN NBasis ELSE nocc
    IN  <<mo_coeff[1], [i \in Basis |-> IF i = z THEN 0 ELSE mo_coeff[2][i]]>>

\* --------------------------------------------------------- initial guess
\* what a guess strategy hands back: the pair (hf_energy, dm) when ok, the
\* exception otherwise; trail: the strategies entered, in order; n_alpha:
\* what set_mo_occ left in nelectron_alpha; ints: integrals were evaluated;
\* warn: log.warn told of a record of another molecule
GuessOk(e, d, n, ints, name) ==
    [ok |-> TRUE, exc |-> "none", hf_energy |-> e, dm |-> d, n_alpha |-> n,
     ints |-> ints, trail |-> <<name>>, warn |-> FALSE]

GuessRaise(x, n, ints, name) ==
    [ok |-> FALSE, exc |-> x, hf_energy |-> 0, dm |-> None, n_alpha |-> n,
     ints |-> ints, trail |-> <<name>>, warn |-> FALSE]

\* a fallback: strategy name was entered first, then r happened
After(name, r) == [r EXCEPT !.trail = <<name>> \o r.trail, !.ints = TRUE]

\* SCF._init_guess_by_1e / UHF._init_guess_by_1e
init_guess_by_1e(k, slf, m) ==
    {LET c  == IF k = "UHF" THEN break_spin_sym(m.nelectron, r.c) ELSE r.c
         o  == set_mo_occ(k, slf, m.nelectron, r.e)
     IN  IF o.ok
         THEN GuessOk(0, calc_den_mat(c, o.occ), o.n_alpha, TRUE, "1e")
         ELSE GuessRaise("IndexError", o.n_alpha, TRUE, "1e")
     : r \in eig(k, get_hcore(k, m))}

\* dm*.5
Half(d) == [p \in Basis |-> d[p] \div 2]

\* densities the external guesses deliver for the solver class
GuessDensities(k) ==
    IF k = "UHF" THEN {<<Half(a), Half(b)>> : a \in GuessBlocks, b \in GuessBlocks}
    ELSE {<<a>> : a \in GuessBlocks}

\* SCF._init_guess_by_minao / UHF._init_guess_by_minao: any failure of the
\* minimal-basis construction is caught and answered by the 1e guess
init_guess_by_minao(k, slf, m) ==
    {GuessOk(0, d, slf.nelectron_alpha, TRUE, "minao") : d \in GuessDensities(k)}
      \cup {After("minao", r) : r \in init_guess_by_1e(k, slf, m)}

\* the overlap projection of stored orbitals onto the current basis: the
\* identity for the same molecule; another molecule's columns land on the
\* first basis function
Project(same_mol, c) == IF same_mol THEN c ELSE [i \in Basis |-> IF c[i] = 0 THEN 0 ELSE 1]

\* numpy.dot(mo_coeff*mo_occ, mo_coeff.T): every column, weighted
DenAll(c, occ) ==
    [p \in Basis |-> Sum([i \in Basis |-> IF c[i] = p THEN occ[i] ELSE 0])]

\* a restart that gives up on the record of another molecule and falls back
\* to the MINAO guess
init_guess_by_chkfile_strict(k, slf, m, rec) ==
    IF rec.state = "missing" \/ ~rec.same_mol
    THEN {After("chkfile", r) : r \in init_guess_by_minao(k, slf, m)}
    ELSE IF k = "UHF"
    THEN LET c0 == IF rec.uhf THEN rec.mo_coeff
                   ELSE break_spin_sym(m.nelectron, <<rec.mo_coeff[1], rec.mo_coeff[1]>>)
             o0 == IF rec.uhf THEN rec.mo_occ ELSE <<rec.mo_occ[1], rec.mo_occ[1]>>
         IN  {GuessOk(rec.hf_energy, [s \in 1..2 |-> DenAll(c0[s], o0[s])],
                      slf.nelectron_alpha, TRUE, "chkfile")}
    ELSE {GuessOk(rec.hf_energy, <<DenAll(rec.mo_coeff[1], rec.mo_occ[1])>>,
                  slf.nelectron_alpha, TRUE, "chkfile")}

\* SCF._init_guess_by_chkfile / UHF._init_guess_by_chkfile: a file that
\* cannot be read is answered by the MINAO guess; the record of another
\* molecule is warned about and used
init_guess_by_chkfile(k, slf, m, rec) ==
    IF rec.state = "missing"
    THEN {After("chkfile", r) : r \in init_guess_by_minao(k, slf, m)}
    ELSE IF k = "UHF"
    THEN LET c0 == IF rec.uhf THEN rec.mo_coeff
                   ELSE break_spin_sym(m.nelectron, <<rec.mo_coeff[1], rec.mo_coeff[1]>>)
             o0 == IF rec.uhf THEN rec.mo_occ ELSE <<rec.mo_occ[1], rec.mo_occ[1]>>
             c1 == [s \in 1..2 |-> Project(rec.same_mol, c0[s])]
         IN  {[GuessOk(rec.hf_energy, [s \in 1..2 |-> DenAll(c1[s], o0[s])],
                       slf.nelectron_alpha, TRUE, "chkfile")
                 EXCEPT !.warn = ~rec.same_mol]}
    ELSE {[GuessOk(rec.hf_energy,
                   <<DenAll(Project(rec.same_mol, rec.mo_coeff[1]), rec.mo_occ[1])>>,
                   slf.nelectron_alpha, TRUE, "chkfile")
              EXCEPT !.warn = ~rec.same_mol]}

\* SCF._init_guess_by_atom / UHF._init_guess_by_atom: the energy and the
\* density of the atomic calculations
init_guess_by_atom(k, slf) ==
    {GuessOk(4 * PerUnit * (atomic_energy - nuclear_repulsion),
             IF k = "UHF" THEN <<Half(d), Half(d)>> ELSE <<d>>,
             slf.nelectron_alpha, TRUE, "atom") : d \in GuessBlocks}

\* a caller's f_init installed over init_guess_method
custom_guess(k, slf) ==
    {GuessOk(0, d, slf.nelectron_alpha, FALSE, "f_init") : d \in GuessDensities(k)}

\* SCF.init_guess_method, or the f_init that replaced it
init_guess_method(k, slf, m, rec) ==
    IF slf.f_init THEN custom_guess(k, slf)
    ELSE IF slf.init_guess = "1e" THEN init_guess_by_1e(k, slf, m)
    ELSE IF slf.init_guess = "chkfile" THEN init_guess_by_chkfile(k, slf, m, rec)
    ELSE IF slf.init_guess = "minao" THEN init_guess_by_minao(k, slf, m)
    ELSE IF slf.init_guess = "atom" THEN init_guess_by_atom(k, slf)
    ELSE {GuessRaise("TypeError", slf.nelectron_alpha, FALSE, "none")}

\* ------------------------------------------------------------------ scf()
\* RHF.init_direct_scf / UHF.init_direct_scf: screening is set up for the
\* direct strategy only
direct_strategy(slf) == ~slf.eri_in_memory /\ slf.direct_scf

\* SCF.scf / UHF.scf up to the call of scf_cycle: the one-electron system
\* takes its own branch; otherwise init_direct_scf, then scf_cycle
scf_begin ==
    /\ pc = "idle" /\ obs.runs < MaxRuns /\ env.script.call = "scf"
    /\ obs' = [NoObs EXCEPT !.call = "scf", !.outcome = "running", !.runs = obs.runs + 1,
                            !.selected = obs.selected]
    /\ IF mol.nelectron = 1
       THEN /\ pc' = "solve_1e"
            /\ loc' = [NoLocals EXCEPT !.via = "scf"]
            /\ UNCHANGED <<self, env>>
       ELSE /\ pc' = "guess"
            /\ loc' = [NoLocals EXCEPT !.via = "scf", !.dump_chk = TRUE]
            /\ self' = [self EXCEPT !.opt = @ \/ direct_strategy(self)]
            /\ env' = [env EXCEPT !.screen = @ \/ direct_strategy(self)]
    /\ UNCHANGED <<mol, kind>>

\* SCF.scf_cycle called by the script itself: scf_cycle(mol, self,
\* scf_threshold, dump_chk), with no init_direct_scf before it
scf_cycle_call ==
    /\ pc = "idle" /\ obs.runs < MaxRuns /\ env.script.call = "scf_cycle"
    /\ obs' = [NoObs EXCEPT !.call = "scf_cycle", !.outcome = "running",
                            !.runs = obs.runs + 1, !.selected = obs.selected]
    /\ pc' = "guess"
    /\ loc' = [NoLocals EXCEPT !.via = "scf_cycle", !.dump_chk = env.script.dump_chk]
    /\ UNCHANGED <<mol, kind, self, env>>

\* the one-electron branch of SCF.scf (solve_1e) and of UHF.scf (SCF.eig on
\* the alpha core Hamiltonian, then a log line that names a local the
\* method never binds)
solve_1e ==
    /\ pc = "solve_1e"
    /\ \E r \in SCF_eig(Hcore(mol.spacing)) :
          /\ self' = [self EXCEPT !.scf_conv = TRUE,
                                  !.mo_energy = r.e,
                                  !.mo_coeff = r.c,
                                  !.mo_occ = <<[i \in Basis |-> IF i = 1 THEN 1 ELSE 0]>>,
                                  !.hf_energy = 2 * r.e[1][1]]
          /\ IF kind = "UHF"
             THEN /\ pc' = "idle"
                  /\ loc' = NoLocals
                  /\ obs' = [obs EXCEPT !.outcome = "raised", !.exc = "NameError",
                                        !.integrals = TRUE]
             ELSE /\ pc' = "finish"
                  /\ loc' = NoLocals
                  /\ obs' = [obs EXCEPT !.integrals = TRUE]
    /\ UNCHANGED <<mol, kind, env>>

\* the tail of SCF.scf / UHF.scf: nuclear repulsion, the log, the total energy
finish ==
    /\ pc = "finish"
    /\ pc' = "idle"
    /\ loc' = loc
    /\ obs' = [obs EXCEPT !.outcome = "returned",
                          !.ret = self.hf_energy + 4 * PerUnit * nuclear_repulsion]
    /\ UNCHANGED <<mol, kind, self, env>>

\* -------------------------------------------------------------- scf_cycle
\* the guess about to be made opens the checkpoint file
reads_chkfile(slf, init_dm) == init_dm = None /\ ~slf.f_init /\ slf.init_guess = "chkfile"

\* lines 97-101: the starting energy and density
guess ==
    /\ pc = "guess"
    /\ \E rec \in (IF reads_chkfile(self, loc.init_dm) THEN FileContents(env.chkfile)
                   ELSE {env.chkfile}) :
       \E r \in (IF loc.init_dm = None
                 THEN init_guess_method(kind, self, mol, rec)
                 ELSE {GuessOk(0, loc.init_dm, self.nelectron_alpha, FALSE, "init_dm")}) :
          /\ env' = [env EXCEPT !.chkfile = rec]
          /\ self' = [self EXCEPT !.nelectron_alpha = r.n_alpha]
          /\ IF r.ok
             THEN /\ pc' = "setup"
                  /\ loc' = [loc EXCEPT !.hf_energy = r.hf_energy, !.dm = r.dm]
                  /\ obs' = [obs EXCEPT !.trail = r.trail, !.integrals = r.ints,
                                        !.warned = r.warn]
             ELSE /\ pc' = "idle"
                  /\ loc' = NoLocals
                  /\ obs' = [obs EXCEPT !.trail = r.trail, !.integrals = r.ints,
                                        !.outcome = "raised", !.exc = r.exc]
    /\ UNCHANGED <<mol, kind>>

\* lines 103-111: the flag, the counter, the accelerator, h1e, s1e, vhf = 0,
\* dm_last = 0
setup ==
    /\ pc = "setup"
    /\ pc' = "loop"
    /\ loc' = [loc EXCEPT !.scf_conv = FALSE, !.cycle = 0, !.err_vec_stack = <<>>,
                          !.vhf = BZero(NBlocks(kind)), !.dm_last = BZero(NBlocks(kind))]
    /\ obs' = [obs EXCEPT !.integrals = TRUE, !.trail = <<>>, !.selected = "none"]
    /\ UNCHANGED <<mol, kind, self, env>>

\* lines 112-115: the loop test passes; the potential is built from dm,
\* dm_last and the previous potential, the Fock matrix goes through the
\* accelerator
build_potential ==
    /\ pc = "loop"
    /\ LoopCond(loc.scf_conv, loc.cycle, self.max_scf_cycle)
    /\ pc' = "eig"
    /\ LET vhf == get_eff_potential(kind, self.eri_in_memory, self.direct_scf,
                                    loc.dm, loc.dm_last, loc.vhf)
           f   == make_fock(get_hcore(kind, mol), vhf)
           a   == scf_diis(kind, self, loc.err_vec_stack, loc.cycle, loc.dm, f)
       IN  /\ loc' = [loc EXCEPT !.vhf = vhf, !.fock = a.fock, !.err_vec_stack = a.stack]
           /\ obs' = [obs EXCEPT !.nBody = @ + 1, !.nDiis = @ + 1,
                          !.pushes = @ \o a.pushed,
                          !.acc = [cycle |-> loc.cycle, dm |-> loc.dm, vhf |-> vhf,
                                   fock |-> f, calls |-> a.calls],
                          !.regimes = Append(@, regime(a.calls)),
                          !.eriBuilds = @ + (IF self.eri_in_memory /\ ~self.eri THEN 1 ELSE 0),
                          !.screenAtBuild = @ /\ (direct_strategy(self) => env.screen)]
    /\ self' = [self EXCEPT !.eri = @ \/ self.eri_in_memory]
    /\ UNCHANGED <<mol, kind, env>>

\* line 571 dies: the integral tensor does not fit after all
potential_fault ==
    /\ pc = "loop"
    /\ LoopCond(loc.scf_conv, loc.cycle, self.max_scf_cycle)
    /\ self.eri_in_memory /\ ~self.eri
    /\ pc' = "idle"
    /\ loc' = NoLocals
    /\ obs' = [obs EXCEPT !.nBody = @ + 1, !.outcome = "raised", !.exc = "MemoryError"]
    /\ UNCHANGED <<mol, kind, self, env>>

\* a convergence test that looks at the energy alone
energy_only(hf_energy, last_hf_e, dm, dm_last, thr) ==
    energy_converged(hf_energy, last_hf_e, thr)

\* the convergence test of lines 127-129
converged(hf_energy, last_hf_e, dm, dm_last, thr) ==
    energy_converged(hf_energy, last_hf_e, thr) /\ check_dm_converge(dm, dm_last, thr)

\* dump_scf_to_chkfile: the record the file holds afterwards
dump_scf_to_chkfile(k, hf_energy, mo_energy, mo_occ, mo_coeff) ==
    [state |-> "ok", same_mol |-> TRUE, uhf |-> (k = "UHF"), hf_energy |-> hf_energy,
     mo_energy |-> mo_energy, mo_occ |-> mo_occ, mo_coeff |-> mo_coeff]

\* lines 117-134: dm_last and last_hf_e (a local of this step) are saved,
\* then eigensolve, occupations, density, energy, the convergence test, the
\* checkpoint of the cycle and cycle += 1.  The status err that eig returns
\* is bound to a local that nothing reads.  set_mo_occ may die on its log
\* line (IndexError), the checkpoint on open() (IOError).
eigensolve ==
    /\ pc = "eig"
    /\ \E r \in eig(kind, loc.fock) : \E io \in {"ok", "IOError"} :
         LET o  == set_mo_occ(kind, self, mol.nelectron, r.e)
             dm == calc_den_mat(r.c, o.occ)
             e  == calc_tot_elec_energy(loc.vhf, dm, r.e, o.occ)
             last_hf_e == loc.hf_energy
             x  == IF ~o.ok THEN "IndexError" ELSE IF loc.dump_chk THEN io ELSE "ok"
         IN  /\ self' = [self EXCEPT !.nelectron_alpha = o.n_alpha]
             /\ IF x = "ok"
                THEN /\ pc' = "loop"
                     /\ loc' = [loc EXCEPT !.dm_last = loc.dm,
                                   !.mo_energy = r.e, !.mo_coeff = r.c,
                                   !.mo_occ = o.occ, !.dm = dm, !.hf_energy = e,
                                   !.scf_conv = @ \/ converged(e, last_hf_e, dm,
                                                               loc.dm, self.scf_threshold),
                                   !.cycle = @ + 1]
                     /\ obs' = [obs EXCEPT !.eigFailed = @ \/ r.failed,
                                   !.eOK = energy_converged(e, last_hf_e, self.scf_threshold),
                                   !.dOK = check_dm_converge(dm, loc.dm, self.scf_threshold),
                                   !.nDump = @ + (IF loc.dump_chk THEN 1 ELSE 0)]
                     /\ env' = IF loc.dump_chk
                               THEN [env EXCEPT !.chkfile =
                                        dump_scf_to_chkfile(kind, e, r.e, o.occ, r.c)]
                               ELSE env
                ELSE /\ pc' = "idle"
                     /\ loc' = NoLocals
                     /\ obs' = [obs EXCEPT !.eigFailed = @ \/ r.failed,
                                   !.eOK = o.ok /\ energy_converged(e, last_hf_e, self.scf_threshold),
                                   !.dOK = o.ok /\ check_dm_converge(dm, loc.dm, self.scf_threshold),
                                   !.outcome = "raised", !.exc = x]
                     /\ env' = env
    /\ UNCHANGED <<mol, kind>>

\* a refinement pass that keeps the potential of the last loop cycle
stale_potential(k, slf, dm, vhf) == vhf

\* line 138: get_eff_potential(mol, dm), dm_last and vhf_last left at their
\* defaults 0
refine_vhf(k, slf, dm, vhf) ==
    get_eff_potential(k, slf.eri_in_memory, slf.direct_scf, dm,
                      BZero(NBlocks(k)), BZero(NBlocks(k)))

\* lines 136-139: the loop is over; the density of the last orbitals, the
\* potential of that density alone and its Fock matrix, no accelerator
refine_potential ==
    /\ pc = "loop"
    /\ ~LoopCond(loc.scf_conv, loc.cycle, self.max_scf_cycle)
    /\ pc' = "refine_eig"
    /\ LET dm  == calc_den_mat(loc.mo_coeff, loc.mo_occ)
           vhf == refine_vhf(kind, self, dm, loc.vhf)
       IN  loc' = [loc EXCEPT !.dm = dm, !.vhf = vhf,
                              !.fock = make_fock(get_hcore(kind, mol), vhf)]
    /\ self' = [self EXCEPT !.eri = @ \/ self.eri_in_memory]
    /\ obs' = [obs EXCEPT !.nRefine = @ + 1,
                          !.eriBuilds = @ + (IF self.eri_in_memory /\ ~self.eri THEN 1 ELSE 0),
                          !.screenAtBuild = @ /\ (direct_strategy(self) => env.screen)]
    /\ UNCHANGED <<mol, kind, env>>

\* a return that reports convergence whatever the flag says
result_always_converged(scf_conv, hf_energy, mo_energy, mo_occ, mo_coeff) ==
    <<TRUE, hf_energy, mo_energy, mo_occ, mo_coeff>>

\* line 147: what scf_cycle returns
scf_cycle_result(scf_conv, hf_energy, mo_energy, mo_occ, mo_coeff) ==
    <<scf_conv, hf_energy, mo_energy, mo_occ, mo_coeff>>

\* lines 140-147: eigensolve, occupations, density and energy once more, the
\* last checkpoint, the return; then scf() stores the returned values in the
\* object (lines 406-408, UHF 961-963), while the script that called
\* scf_cycle itself has the tuple and the object keeps what it held
refine_eig ==
    /\ pc = "refine_eig"
    /\ \E r \in eig(kind, loc.fock) : \E io \in {"ok", "IOError"} :
         LET o  == set_mo_occ(kind, self, mol.nelectron, r.e)
             dm == calc_den_mat(r.c, o.occ)
             e  == calc_tot_elec_energy(loc.vhf, dm, r.e, o.occ)
             x  == IF ~o.ok THEN "IndexError" ELSE IF loc.dump_chk THEN io ELSE "ok"
             ret == scf_cycle_result(loc.scf_conv, e, r.e, o.occ, r.c)
         IN  IF x = "ok"
             THEN /\ IF loc.via = "scf"
                     THEN /\ pc' = "del_direct_scf"
                          /\ loc' = loc
                          /\ self' = [self EXCEPT !.nelectron_alpha = o.n_alpha,
                                          !.scf_conv = ret[1], !.hf_energy = ret[2],
                                          !.mo_energy = ret[3], !.mo_occ = ret[4],
                                          !.mo_coeff = ret[5]]
                          /\ obs' = [obs EXCEPT !.eigFailed = @ \/ r.failed,
                                        !.cycRet = ret,
                                        !.nDump = @ + (IF loc.dump_chk THEN 1 ELSE 0)]
                     ELSE /\ pc' = "idle"
                          /\ loc' = NoLocals
                          /\ self' = [self EXCEPT !.nelectron_alpha = o.n_alpha]
                          /\ obs' = [obs EXCEPT !.eigFailed = @ \/ r.failed,
                                        !.cycRet = ret, !.outcome = "returned",
                                        !.nDump = @ + (IF loc.dump_chk THEN 1 ELSE 0)]
                  /\ env' = IF loc.dump_chk
                            THEN [env EXCEPT !.chkfile =
                                     dump_scf_to_chkfile(kind, e, r.e, o.occ, r.c)]
                            ELSE env
             ELSE /\ pc' = "idle"
                  /\ loc' = NoLocals
                  /\ self' = [self EXCEPT !.nelectron_alpha = o.n_alpha]
                  /\ obs' = [obs EXCEPT !.eigFailed = @ \/ r.failed,
                                        !.outcome = "raised", !.exc = x]
                  /\ env' = env
    /\ UNCHANGED <<mol, kind>>

\* UHF.scf lines 965-968: the spin channels change places when alpha holds
\* fewer than half of the electrons
swap_channels(k, slf, nelectron) ==
    IF k = "UHF" /\ slf.nelectron_alpha * 2 < nelectron
    THEN [slf EXCEPT !.mo_coeff = <<slf.mo_coeff[2], slf.mo_coeff[1]>>,
                     !.mo_occ = <<slf.mo_occ[2], slf.mo_occ[1]>>,
                     !.mo_energy = <<slf.mo_energy[2], slf.mo_energy[1]>>]
    ELSE slf

\* RHF.del_direct_scf / UHF.del_direct_scf: the screening state afterwards
del_direct_scf(slf, screen) == IF direct_strategy(slf) THEN FALSE ELSE screen

\* scf() line 409 (UHF 964-968): del_direct_scf, the UHF channel swap
scf_after_cycle ==
    /\ pc = "del_direct_scf"
    /\ pc' = "finish"
    /\ loc' = NoLocals
    /\ env' = [env EXCEPT !.screen = del_direct_scf(self, env.screen)]
    /\ self' = swap_channels(kind, self, mol.nelectron)
    /\ UNCHANGED <<mol, kind, obs>>

\* ------------------------------------------------------------------- next
Next ==
    \/ RHF_init
    \/ UHF_init
    \/ \E m \in GuessMethods \cup {"huckel"}, f \in BOOLEAN : set_init_guess(m, f)
    \/ release_eri
    \/ scf_begin
    \/ scf_cycle_call
    \/ solve_1e
    \/ guess
    \/ setup
    \/ build_potential
    \/ potential_fault
    \/ eigensolve
    \/ refine_potential
    \/ refine_eig
    \/ scf_after_cycle
    \/ finish

Spec == Init /\ [][Next]_vars

\* the same program under the scripts that configure the accelerator
SpecDiis == InitDiis /\ [][Next]_vars

\* the same program under the scripts that fix the alpha count
SpecSpin == InitSpin /\ [][Next]_vars

\* the same program on the molecules of the wide basis
SpecWide == InitWide /\ [][Next]_vars

\* ------------------------------------------------------------- properties
\* the last call was scf() and it has returned
Returned == pc = "idle" /\ obs.call = "scf" /\ obs.outcome = "returned"

\* the run went through scf_cycle (more than one electron)
Iterated == mol.nelectron # 1

\* a tuple of spin blocks with the blocks in reverse order
Rev(t) == [s \in DOMAIN t |-> t[Len(t) + 1 - s]]

\* C1, as stated: one call of scf_cycle executes the loop body at most
\* max_scf_cycle times, for every budget, 0 and negative values included
C1_BodyWithinBudget ==
    (obs.call = "scf" /\ Iterated) => obs.nBody <= Max(0, self.max_scf_cycle)

\* C1, amended: one call of scf_cycle executes the loop body at most
\* max(1, max_scf_cycle) times; the counter of started bodies is the loop
\* counter whenever the loop test is about to be made
C1_BodyWithinFlooredBudget ==
    /\ (obs.call = "scf" /\ Iterated) => obs.nBody <= Max(1, self.max_scf_cycle)
    /\ pc = "loop" => obs.nBody = loc.cycle
    /\ pc = "eig" => obs.nBody = loc.cycle + 1

\* a run with a budget of 0 or less has returned after one loop body
C1_Witness == Returned /\ Iterated /\ self.max_scf_cycle <= 0 /\ obs.nBody = 1

\* C2: the flag is set in a cycle exactly when both criteria hold in that
\* cycle; no loop body starts once it is set; the loop ends below the
\* budget only with the flag set by the criteria of its last cycle
C2_StopsOnBothCriteria ==
    /\ (pc = "loop" /\ loc.cycle > 0) => (loc.scf_conv <=> (obs.eOK /\ obs.dOK))
    /\ pc = "eig" => ~loc.scf_conv
    /\ (pc = "refine_eig" /\ loc.cycle < self.max_scf_cycle) => loc.scf_conv
    /\ (pc = "refine_eig" /\ loc.scf_conv) => (obs.eOK /\ obs.dOK)
    /\ (pc = "refine_eig" /\ ~loc.scf_conv) => loc.cycle >= self.max_scf_cycle

\* the loop has ended below the budget, both criteria having held
C2_Witness ==
    pc = "refine_eig" /\ loc.scf_conv /\ loc.cycle < self.max_scf_cycle /\ loc.cycle > 1

\* C3: with the budget used up and the flag never set, the refinement pass
\* is the next step, and the run that returns hands back the refinement's
\* values with the flag False, stores them, and returns the total energy
C3_ExhaustedStillReturns ==
    /\ (pc = "loop" /\ ~loc.scf_conv /\ loc.cycle >= Max(1, self.max_scf_cycle))
          => ENABLED refine_potential
    /\ (Returned /\ Iterated /\ ~(obs.eOK /\ obs.dOK))
          => /\ obs.cycRet[1] = FALSE
             /\ self.scf_conv = FALSE
             /\ self.hf_energy = obs.cycRet[2]
             /\ self.mo_energy \in {obs.cycRet[3], Rev(obs.cycRet[3])}
             /\ self.mo_occ \in {obs.cycRet[4], Rev(obs.cycRet[4])}
             /\ self.mo_coeff \in {obs.cycRet[5], Rev(obs.cycRet[5])}
             /\ obs.ret = self.hf_energy + 4 * PerUnit * nuclear_repulsion

\* a run has returned unconverged after MaxCycle loop bodies
C3_Witness ==
    /\ Returned /\ Iterated /\ ~self.scf_conv
    /\ self.max_scf_cycle = MaxCycle /\ obs.nBody = MaxCycle

\* C4: no refinement before the loop ends; after it exactly one, on the
\* density of the last orbitals, with the potential of that density alone
\* and the plain Fock matrix (the accelerator is called once per loop body
\* and never again); what scf_cycle hands back is the eigen-decomposition of
\* that Fock matrix, its occupations and energy, and the flag of the loop
C4_OneRefinementPass ==
    /\ pc \in {"guess", "setup", "loop", "eig"} => obs.nRefine = 0
    /\ pc = "refine_eig"
          => /\ obs.nRefine = 1 /\ obs.nDiis = obs.nBody
             /\ loc.dm = calc_den_mat(loc.mo_coeff, loc.mo_occ)
             /\ loc.vhf = Veff(kind, loc.dm)
             /\ loc.fock = make_fock(get_hcore(kind, mol), loc.vhf)
    /\ pc = "del_direct_scf"
          => /\ obs.nRefine = 1 /\ obs.nDiis = obs.nBody
             /\ self.scf_conv = loc.scf_conv
             /\ \E r \in eig(kind, loc.fock) :
                   self.mo_energy = r.e /\ self.mo_coeff = r.c
             /\ self.mo_occ = set_mo_occ(kind, self, mol.nelectron, self.mo_energy).occ
             /\ self.hf_energy =
                   calc_tot_elec_energy(loc.vhf, calc_den_mat(self.mo_coeff, self.mo_occ),
                                        self.mo_energy, self.mo_occ)
    /\ (Returned /\ Iterated) => (obs.nRefine = 1 /\ obs.nDiis = obs.nBody)

\* scf_cycle has returned from a converged loop of at least two cycles
C4_Witness == pc = "del_direct_scf" /\ loc.scf_conv /\ obs.nBody >= 2

\* C5: scf() on a one-electron molecule, restricted or unrestricted, ends by
\* returning, without loop body, accelerator or screening, with scf_conv
\* True, one electron in the lowest orbital and its energy as hf_energy
C5_OneElectronReturns ==
    (pc = "idle" /\ obs.call = "scf" /\ mol.nelectron = 1)
       => /\ obs.outcome = "returned"
          /\ self.scf_conv
          /\ self.mo_occ = <<[i \in Basis |-> IF i = 1 THEN 1 ELSE 0]>>
          /\ self.hf_energy = 2 * self.mo_energy[1][1]
          /\ obs.ret = self.hf_energy + 4 * PerUnit * nuclear_repulsion
          /\ obs.nBody = 0 /\ obs.nDiis = 0 /\ obs.trail = <<>>

\* C6: every potential build of a direct-strategy run finds the screening
\* state initialised, and no run ends, by return or by exception, with the
\* screening state still initialised
C6_ScreeningReleased ==
    /\ obs.call = "scf" => obs.screenAtBuild
    /\ (pc = "idle" /\ obs.call = "scf") => ~env.screen

\* C7: once scf() has returned the solver holds no integral tensor
C7_TensorReleased == Returned => ~self.eri

\* C8: a guess that starts at the checkpoint or the minimal-basis strategy
\* walks the chain forwards and never ends in an exception
C8_GuessNeverFatal ==
    (obs.call = "scf" /\ obs.trail # <<>> /\ obs.trail[1] \in {"chkfile", "minao"})
       => /\ obs.outcome # "raised"
          /\ obs.trail \in {<<"chkfile">>, <<"chkfile", "minao">>,
                            <<"chkfile", "minao", "1e">>, <<"minao">>, <<"minao", "1e">>}

\* C9, as stated: a method name outside the four known ones is refused
C9_UnknownRefused ==
    (obs.call = "set_init_guess" /\ obs.method \notin {"1e", "chkfile", "minao", "atom"})
       => obs.outcome = "raised"

\* C9, amended: a method name outside the four known ones, given without a
\* custom guess function, is refused with KeyError by set_init_guess itself,
\* with no integral evaluated and no screening state set up; the method name
\* the object holds is always one of the four
C9_UnknownRefusedUnlessCustom ==
    /\ (obs.call = "set_init_guess" /\ ~obs.custom
          /\ obs.method \notin {"1e", "chkfile", "minao", "atom"})
          => /\ obs.outcome = "raised" /\ obs.exc = "KeyError"
             /\ pc = "idle" /\ ~obs.integrals /\ obs.nBody = 0
             /\ (obs.runs = 0 => ~env.screen)
    /\ pc \notin {"new", "dead"} => self.init_guess \in {"1e", "chkfile", "minao", "atom"}

\* set_init_guess has refused an unknown name
C9_Witness ==
    /\ obs.call = "set_init_guess" /\ obs.method = "huckel" /\ ~obs.custom
    /\ obs.outcome = "raised"

\* C10: no run in which some dsygv call of a loop cycle or of the refinement
\* pass reported a failure returns as a run without failure does
C10_StatusPropagated == Returned => ~obs.eigFailed

\* scf_cycle is running and its accelerator object exists
InRun == pc \in {"loop", "eig", "refine_eig", "del_direct_scf"}

\* the last n entries of a sequence
LastN(seq, n) == SubSeq(seq, Len(seq) - n + 1, Len(seq))

\* the calls the accelerator made in the loop body that has just built its
\* Fock matrix
Calls == obs.acc.calls

\* C11: the error-vector history holds at most diis_space entries, and they
\* are the most recent min(pushes, diis_space) error vectors pushed in this
\* run, oldest first
C11_HistoryBounded ==
    InRun => /\ Len(loc.err_vec_stack) <= self.diis_space
             /\ loc.err_vec_stack =
                   LastN(obs.pushes, IF Len(obs.pushes) < self.diis_space
                                     THEN Len(obs.pushes) ELSE self.diis_space)

\* one push more than diis_space has been made and the oldest entry is gone
C11_Witness ==
    /\ pc = "eig" /\ Len(obs.pushes) = self.diis_space + 1
    /\ Len(loc.err_vec_stack) = self.diis_space
    /\ loc.err_vec_stack[1] = obs.pushes[2]

\* C12: in a cycle below diis_start_cycle nothing is extrapolated and the
\* history stays empty; below diis_start_cycle - 1 the Fock matrix goes
\* through damping at damp_factor and then through the level shift at
\* level_shift_factor; in the cycle diis_start_cycle - 1 it goes through the
\* level shift alone, at level_shift_factor * exp(0)
C12_RegimesBelowStart ==
    (pc = "eig" /\ loc.cycle < self.diis_start_cycle)
       => /\ \A i \in DOMAIN Calls : Calls[i].name # "update"
          /\ obs.pushes = <<>> /\ loc.err_vec_stack = <<>>
          /\ loc.cycle < self.diis_start_cycle - 1
                => /\ Len(Calls) = 2
                   /\ Calls[1].name = "damping" /\ Calls[1].factor = self.damp_factor
                   /\ Calls[1].fin = obs.acc.fock
                   /\ Calls[2].name = "level_shift"
                   /\ Calls[2].factor = self.level_shift_factor
                   /\ Calls[2].fin = Calls[1].fout /\ Calls[2].fout = loc.fock
          /\ loc.cycle = self.diis_start_cycle - 1
                => /\ Len(Calls) = 1
                   /\ Calls[1].name = "level_shift"
                   /\ Calls[1].factor = self.level_shift_factor
                   /\ Calls[1].fin = obs.acc.fock /\ Calls[1].fout = loc.fock

\* the boundary cycle has shifted the Fock matrix, a damped and shifted cycle
\* having gone before
C12_Witness ==
    /\ pc = "eig" /\ loc.cycle = self.diis_start_cycle - 1 /\ loc.cycle > 0
    /\ self.damp_factor >= 1 /\ loc.fock # obs.acc.fock

\* the regimes of the cycles of a run never step back
RegimesInOrder ==
    \A i \in 1..(Len(obs.regimes) - 1) : obs.regimes[i] <= obs.regimes[i + 1]

\* the regime of the cycle is the one its index selects
RegimeByIndex ==
    pc = "eig" => regime(Calls) = (IF loc.cycle < self.diis_start_cycle - 1 THEN 1
                                   ELSE IF loc.cycle < self.diis_start_cycle THEN 2 ELSE 3)

\* C13, as stated: in a cycle at or above diis_start_cycle the Fock matrix
\* handed back is the extrapolated one, neither damped nor shifted; one
\* regime per cycle, selected by the index, entered in order
C13_OnlyExtrapolation ==
    /\ (pc = "eig" /\ loc.cycle >= self.diis_start_cycle)
          => /\ Calls[1].name = "update" /\ Calls[1].fin = obs.acc.fock
             /\ loc.fock = Calls[1].fout
             /\ \A i \in DOMAIN Calls : Calls[i].name # "damping"
    /\ RegimeByIndex
    /\ RegimesInOrder

\* C13, amended: in a cycle at or above diis_start_cycle the Fock matrix is
\* extrapolated and then level shifted at the factor
\* level_shift_factor * exp(diis_start_cycle - cycle - 1), which changes
\* nothing once that factor is below 1e-3, and is never damped; one regime
\* per cycle, selected by the index, entered in order
C13_ExtrapolationThenDecayedShift ==
    /\ (pc = "eig" /\ loc.cycle >= self.diis_start_cycle)
          => /\ Len(Calls) = 2
             /\ Calls[1].name = "update" /\ Calls[1].fin = obs.acc.fock
             /\ Calls[2].name = "level_shift"
             /\ Calls[2].factor =
                   (self.level_shift_factor
                      * exp_neg(loc.cycle + 1 - self.diis_start_cycle)) \div PerUnit
             /\ Calls[2].factor < self.level_shift_factor \/ self.level_shift_factor <= 0
             /\ Calls[2].fin = Calls[1].fout /\ Calls[2].fout = loc.fock
             /\ Calls[2].factor < 1 => loc.fock = Calls[1].fout
    /\ RegimeByIndex
    /\ RegimesInOrder

\* an extrapolated Fock matrix has been level shifted, the two earlier
\* regimes having gone before
C13_Witness ==
    /\ pc = "eig" /\ loc.cycle >= self.diis_start_cycle
    /\ obs.regimes = <<1, 2, 3>>
    /\ loc.fock # Calls[1].fout

RestrictedOcc(occ, e) ==
    /\ Len(occ) = 1
    /\ \A i \in Basis : occ[1][i] \in {0, 2}
    /\ Sum(occ[1]) = mol.nelectron
    /\ \A i \in Basis : occ[1][i] = 2 <=> 2 * i <= mol.nelectron
    /\ \A i, j \in Basis : i < j => e[1][i] <= e[1][j]

\* C14: in a restricted run on an even electron count the occupations of
\* every loop cycle and of the refinement pass are 0 or 2, sum to the
\* electron count and sit on the N/2 lowest orbitals, and set_mo_occ always
\* returns
C14_RestrictedOccupations ==
    (kind = "RHF" /\ mol.nelectron % 2 = 0)
       => /\ obs.exc # "IndexError"
          /\ ((pc = "loop" /\ loc.cycle > 0) \/ pc = "refine_eig")
                => RestrictedOcc(loc.mo_occ, loc.mo_energy)
          /\ (pc \in {"del_direct_scf", "finish"} \/ Returned)
                => RestrictedOcc(self.mo_occ, self.mo_energy)

\* a restricted run of two loop cycles has finished its refinement pass with
\* a filled and an empty orbital
C14_Witness ==
    /\ kind = "RHF" /\ pc = "del_direct_scf" /\ obs.nBody >= 2
    /\ mol.nelectron = 2 /\ self.mo_occ[1][1] = 2 /\ self.mo_occ[1][NBasis] = 0

\* occupations of an unrestricted solver: 0 or 1, nelectron in all
UnrestrictedOcc(occ) ==
    /\ Len(occ) = 2
    /\ \A s \in 1..2 : \A i \in Basis : occ[s][i] \in {0, 1}
    /\ Sum(occ[1]) + Sum(occ[2]) = mol.nelectron

\* C15: in an unrestricted run UHF.set_mo_occ returns in every iteration,
\* a filled spin channel included, and the alpha and beta occupations it
\* returns are 0 or 1 and add up to the electron count
C15_SpinCountsAddUp ==
    kind = "UHF"
       => /\ ~(obs.exc = "IndexError" /\ obs.nBody > 0)
          /\ ((pc = "loop" /\ loc.cycle > 0) \/ pc = "refine_eig")
                => UnrestrictedOcc(loc.mo_occ)
          /\ pc = "del_direct_scf" => UnrestrictedOcc(self.mo_occ)

\* the alpha orbitals among the nelectron lowest of the two channels merged
\* in ascending order, alpha before beta at equal energy: alpha orbital i
\* comes after the i - 1 alpha orbitals below it and after the beta
\* orbitals of strictly lower energy
AlphaAmongLowest(e, nelectron) ==
    Cardinality({i \in Basis :
        i + Cardinality({j \in Basis : e[2][j] < e[1][i]}) <= nelectron})

\* the alpha count set_mo_occ has to settle on for the orbital energies e
ExpectedAlpha(e) ==
    IF self.fix_nelectron_alpha > 0 THEN self.fix_nelectron_alpha
    ELSE AlphaAmongLowest(e, mol.nelectron)

\* C16: after every call of UHF.set_mo_occ the alpha count is the fixed
\* count when one is configured, and otherwise the number of alpha orbitals
\* among the N lowest of the merged orbital energies, alpha first at equal
\* energy; the alpha occupations are that many leading ones
C16_AlphaCount ==
    kind = "UHF"
       => /\ ((pc = "loop" /\ loc.cycle > 0) \/ pc = "refine_eig")
                => /\ self.nelectron_alpha = ExpectedAlpha(loc.mo_energy)
                   /\ \A i \in Basis :
                         loc.mo_occ[1][i] = 1 <=> i <= self.nelectron_alpha
          /\ pc = "del_direct_scf"
                => /\ self.nelectron_alpha = ExpectedAlpha(self.mo_energy)
                   /\ \A i \in Basis :
                         self.mo_occ[1][i] = 1 <=> i <= self.nelectron_alpha

\* three electrons, no fixed count, the two channels at equal energies: the
\* odd electron has gone to alpha
C16_Witness ==
    /\ kind = "UHF" /\ pc = "loop" /\ loc.cycle > 0
    /\ self.fix_nelectron_alpha = 0 /\ mol.nelectron = 3
    /\ loc.mo_energy[1] = loc.mo_energy[2]
    /\ self.nelectron_alpha = 2

\* a fixed alpha count has overruled the orbital energies
C16_WitnessFixed ==
    /\ kind = "UHF" /\ pc = "loop" /\ loc.cycle > 0
    /\ self.fix_nelectron_alpha > 0
    /\ self.nelectron_alpha # AlphaAmongLowest(loc.mo_energy, mol.nelectron)

\* the guess has just been taken from the record of another molecule
FromOtherMolecule ==
    /\ obs.call = "scf" /\ obs.trail # <<>> /\ obs.trail[1] = "chkfile"
    /\ env.chkfile.state = "ok" /\ ~env.chkfile.same_mol

C18_OddCountRefused ==
    kind = "RHF"
       => /\ (pc # "new" /\ mol.nelectron # 1 /\ mol.nelectron % 2 = 1)
                => /\ pc = "dead" /\ self = NoObject
                   /\ obs.call = "__init__" /\ obs.outcome = "raised"
                   /\ obs.exc = "ValueError"
                   /\ ~obs.integrals /\ ~env.screen /\ env.chkfile = AsFound
          /\ (pc # "new" /\ (mol.nelectron = 1 \/ mol.nelectron % 2 = 0))
                => pc # "dead" /\ self # NoObject
          /\ obs.call = "scf" => (mol.nelectron = 1 \/ mol.nelectron % 2 = 0)

\* RHF has refused three electrons
C18_Witness == kind = "RHF" /\ pc = "dead" /\ mol.nelectron = 3

\* C20: at every loop test the driver holds as dm_last the density the last
\* potential was built from and as vhf that potential (both zero before the
\* first cycle), and the potential of every cycle, whatever the strategy, is
\* the potential of the current density alone; so is the potential of the
\* refinement pass
C20_IncrementalEqualsFull ==
    /\ (pc = "loop" /\ loc.cycle = 0)
          => loc.dm_last = BZero(NBlocks(kind)) /\ loc.vhf = BZero(NBlocks(kind))
    /\ (pc = "loop" /\ loc.cycle > 0)
          => loc.dm_last = obs.acc.dm /\ loc.vhf = obs.acc.vhf
    /\ pc = "eig" => loc.vhf = Veff(kind, loc.dm) /\ obs.acc.dm = loc.dm
    /\ pc = "refine_eig" => loc.vhf = Veff(kind, loc.dm)

\* the direct strategy has built the potential of a later cycle from the
\* difference of two different densities
C20_Witness ==
    /\ pc = "eig" /\ direct_strategy(self) /\ loc.cycle >= 1
    /\ loc.dm # loc.dm_last /\ loc.dm_last # BZero(NBlocks(kind))

\* the script's call of the given entry point has returned
Ended(call) == pc = "idle" /\ obs.call = call /\ obs.outcome = "returned"

\* the record that holds what the solver object exposes
RecordOfObject ==
    dump_scf_to_chkfile(kind, self.hf_energy, self.mo_energy, self.mo_occ, self.mo_coeff)

\* the run that has returned exchanged its spin channels at the end
Swapped == Returned /\ Iterated /\ kind = "UHF" /\ self.nelectron_alpha * 2 < mol.nelectron

\* with the checkpoint on, one record per completed loop cycle and one more
\* after the refinement pass; with it off, none, and the file is as found
RecordPerCycle ==
    /\ (pc = "loop" /\ loc.dump_chk) => obs.nDump = loc.cycle
    /\ (pc = "eig" /\ loc.dump_chk) => obs.nDump = loc.cycle
    /\ pc = "del_direct_scf" => obs.nDump = obs.nBody + 1
    /\ (Returned /\ Iterated) => obs.nDump = obs.nBody + 1
    /\ (Ended("scf_cycle") /\ env.script.dump_chk) => obs.nDump = obs.nBody + 1
    /\ (obs.call = "scf_cycle" /\ ~env.script.dump_chk)
          => obs.nDump = 0 /\ env.chkfile \in InitialFiles \cup {AsFound}

\* C21: with the checkpoint on, a record is written once per loop cycle and
\* once after the refinement pass, and once scf() has returned the file holds
\* the energy, orbital energies, occupations and coefficients the object
\* exposes, the spin channels in the object's order; with the checkpoint off
\* no record is written
C21_RecordIsFinalResult ==
    /\ RecordPerCycle
    /\ (Returned /\ Iterated) => env.chkfile = RecordOfObject

\* the built-in strategy or the custom function the guess of this call
\* entered first
StrategyUsed == obs.trail[1]

\* C22: the guess of a run enters the strategy that the most recent
\* successful call of init_guess / set_init_guess selected (the constructor's
\* 'minao' when there was none): the built-in method named last, also when a
\* custom function was installed before it
C22_LastSelectionUsed ==
    (obs.call \in {"scf", "scf_cycle"} /\ obs.trail # <<>>) => StrategyUsed = obs.selected

\* occupied orbitals of a spin channel
NOcc(occ) == Cardinality({i \in Basis : occ[i] > 0})

\* C23: once UHF.scf() has returned on more than one electron, the first
\* channel of mo_occ holds at least as many occupied orbitals as the second,
\* and nelectron_alpha is the number of occupied orbitals of the first
\* channel, with or without a swap of the channels at the end
C23_SpinConsistent ==
    (Returned /\ Iterated /\ kind = "UHF")
       => /\ NOcc(self.mo_occ[1]) >= NOcc(self.mo_occ[2])
          /\ self.nelectron_alpha = NOcc(self.mo_occ[1])

====
